---- MODULE Spec2Model ----
(***************************************************************************)
(* Terminal-session lifecycle manager (class TerminalManager): the         *)
(* registry of pty-backed terminals, the output/exit handlers wired to     *)
(* each pty, assistant-session capture (output extraction and directory    *)
(* polling), the periodic persistence bridge and session restore.          *)
(*                                                                         *)
(* The host is single-threaded: every command, pty event and timer         *)
(* callback runs to completion, so each is one action.  A TerminalProcess  *)
(* object outlives its registry entry (the pty handlers close over it), so *)
(* objects live in the heap `procs`, indexed by the handle of the pty they *)
(* own, and `terminals` maps an id to a handle.  An object leaves the heap *)
(* when nothing can reach it any more: its pty has exited (no handler will *)
(* run again) and no suspended restore holds it.                           *)
(*                                                                         *)
(* Text is a sequence of units; one unit stands for a block of characters  *)
(* (plain text, or one whole announcement the extractor's patterns match). *)
(* Notifications are recorded at the fan-out call (webContents.send).      *)
(***************************************************************************)
EXTENDS Integers, Sequences, FiniteSets, TLC

None == "none"

(* ---------------- bounds of the model ---------------- *)
MaxSpawn == 3
MaxFaultSpawn == 2
MaxKillFailures == 1
MaxClock == 1
MaxPolls == 1
MaxRestores == 1
MaxReceived == 4
MaxBufferSpawn == 1
MaxCaptureSpawn == 1
MaxProbes == 1
MaxRateSpawn == 2
MaxElapsed == 120001
MaxOutputSpawn == 2
MaxChunks == 2
MaxStoreSpawn == 1
MaxInvokeSpawn == 1
MaxReopenSpawn == 1
MaxPollingSpawn == 1
MaxStopSpawn == 2
MaxRestoreSpawn == 2
MaxSettleSpawn == 2
MaxSyncSpawn == 2
MaxChains == 2
MaxChainSpawn == 2
MaxShutdownSpawn == 2
MaxModeSpawn == 1

(* ---------------- program constants ---------------- *)
\* slice(-100000): the cap of outputBuffer, in units of 50000 characters
OutputBufferCap == 2
\* now - lastNotified > 60000, in milliseconds
RateLimitCooldown == 60000
\* const maxAttempts = 10
maxAttempts == 10
\* Date.now() when the host starts: any time later than one cool-down
StartClock == 100000

Ids == {"t1", "t2"}
HomeDir == "/home"

VARIABLES
  terminals,            \* Map<string, TerminalProcess>: id -> handle
  procs,                \* the reachable TerminalProcess objects, by handle
  ptys,                 \* the pty primitive's state per handle
  store,                \* the durable session store: <<projectPath, id>> -> TerminalSession
  rateLimitNotifiedAt,  \* Map<string, number>
  saveTimer,            \* TRUE while the setInterval timer is armed
  polls,                \* pending checkForSession closures (one per capture chain)
  restores,             \* restore calls suspended in the settle delay
  files,                \* the session log directory per project path
  clock,                \* Date.now()
  last,                 \* what the last step did (its result and its calls out)
  received,             \* history: every chunk a pty has delivered, concatenated
  arrived,              \* history: per id, the chunks its ptys delivered, in order
  forwarded,            \* history: per id, the payloads of its output notifications, in order
  discovered,           \* history: session-discovered notifications since the id was last cleared
  awaiting,             \* history: invoked, and no chunk has announced a session id since
  removals,             \* history: removeSession calls made for a TerminalProcess
  launchedAt            \* history: Date.now() of the last invokeClaude or resume of a restore, per handle

pvars == <<terminals, procs, ptys, store, rateLimitNotifiedAt, saveTimer, polls,
           restores, files, clock>>
vars == <<terminals, procs, ptys, store, rateLimitNotifiedAt, saveTimer, polls,
          restores, files, clock, last, received, arrived, forwarded, discovered,
          awaiting, removals, launchedAt>>

(* ---------------- finite maps ---------------- *)
EmptyMap == [x \in {} |-> None]
Put(f, k, v) == [x \in DOMAIN f \cup {k} |-> IF x = k THEN v ELSE f[x]]
Remove(f, k) == [x \in DOMAIN f \ {k} |-> f[x]]

(* ---------------- the durable store (external collaborator) ---------------- *)
StoreKey(projectPath, id) == <<projectPath, id>>
saveSession(st, session) == Put(st, StoreKey(session.projectPath, session.id), session)
removeSession(st, projectPath, id) == Remove(st, StoreKey(projectPath, id))
hasSession(st, projectPath, id) == StoreKey(projectPath, id) \in DOMAIN st
getSession(st, projectPath, id) == st[StoreKey(projectPath, id)]
updateClaudeSessionId(st, projectPath, id, sessionId) ==
  IF hasSession(st, projectPath, id)
  THEN [st EXCEPT ![StoreKey(projectPath, id)].claudeSessionId = sessionId]
  ELSE st
clearProjectSessions(st, projectPath) ==
  [k \in {x \in DOMAIN st : x[1] # projectPath} |-> st[k]]

(* ---------------- records of what a step did ---------------- *)
Note(ch, id, h, s, n, data) == [ch |-> ch, id |-> id, h |-> h, s |-> s, n |-> n, data |-> data]
Call(fn, projectPath, id, h) == [fn |-> fn, projectPath |-> projectPath, id |-> id, h |-> h]
Write(h, cmd, arg) == [h |-> h, cmd |-> cmd, arg |-> arg]
Step(op, id) ==
  [op |-> op, id |-> id, h |-> 0, ok |-> TRUE, arg |-> None,
   sent |-> <<>>, calls |-> <<>>, writes |-> <<>>, spawned |-> 0, scheduled |-> 0,
   scanned |-> FALSE, input |-> <<>>, threw |-> <<>>, outputBuffer |-> <<>>]

(* ---------------- session signal extractor ---------------- *)
\* A unit of output text: plain text, an announcement one of
\* CLAUDE_SESSION_PATTERNS matches, or a rate-limit notice.
TextUnits == {"x", "y"}
SessionUnits == {"Session: s1", "session_id=s2", "Session: s2"}
RateUnits == {"Limit reached . resets 6am"}

\* which pattern of CLAUDE_SESSION_PATTERNS matches the unit (0: none)
PatternOf(u) ==
  CASE u = "Session: s1" -> 1
    [] u = "Session: s2" -> 1
    [] u = "session_id=s2" -> 2
    [] OTHER -> 0
\* the pattern's capture group
CaptureOf(u) ==
  CASE u = "Session: s1" -> "s1"
    [] u = "Session: s2" -> "s2"
    [] u = "session_id=s2" -> "s2"
    [] OTHER -> None

Min(S) == CHOOSE x \in S : \A y \in S : x <= y

Matches(data, p) == {i \in 1..Len(data) : PatternOf(data[i]) = p}
extractClaudeSessionId(data) ==
  LET hit == {p \in 1..4 : Matches(data, p) # {}}
  IN IF hit = {} THEN None
     ELSE CaptureOf(data[Min(Matches(data, Min(hit)))])

RateMatches(data) == {i \in 1..Len(data) : data[i] \in RateUnits}
\* RATE_LIMIT_PATTERN: the reset text of the first notice (None: no match)
rateLimitMatch(data) ==
  IF RateMatches(data) = {} THEN None ELSE "6am"

\* (buffer + data).slice(-100000)
sliceLast(s, n) ==
  IF Len(s) <= n THEN s ELSE SubSeq(s, Len(s) - n + 1, Len(s))
\* (a slip: slice(0, 100000) keeps the head)
appendOutputKeepsHead(buffer, data) ==
  SubSeq(buffer \o data, 1, IF Len(buffer \o data) <= OutputBufferCap
                            THEN Len(buffer \o data) ELSE OutputBufferCap)
appendOutput(buffer, data) == sliceLast(buffer \o data, OutputBufferCap)

(* ---------------- session directory scanner ---------------- *)
\* files[projectPath] is a set of [name, ext, mtime]: the file is called
\* name followed by ext
\* files[0].name.replace('.jsonl', ''): the file's name without the first
\* '.jsonl' in it, which is the extension unless the name holds another
removeFirstLogExtension(name, ext) ==
  CASE name = "s1.jsonl.bak" -> IF ext = ".jsonl" THEN "s1.bak.jsonl" ELSE "s1.bak.txt"
    [] name = "s1" -> IF ext = ".jsonl" THEN "s1" ELSE "s1.txt"
    [] name = "s2" -> IF ext = ".jsonl" THEN "s2" ELSE "s2.txt"
    [] OTHER -> name

findClaudeSessionAfter(projectPath, afterTimestamp) ==
  IF projectPath \notin DOMAIN files THEN None
  ELSE LET fs == {f \in files[projectPath] : f.ext = ".jsonl" /\ f.mtime > afterTimestamp}
       IN IF fs = {} THEN None
          ELSE LET f == CHOOSE f \in fs : \A g \in fs : g.mtime <= f.mtime
               IN removeFirstLogExtension(f.name, f.ext)

(* ---------------- registry helpers ---------------- *)
has(id) == id \in DOMAIN terminals
Registered == {terminals[id] : id \in DOMAIN terminals}
TerminalTitle(n) ==
  CASE n = 1 -> "Terminal 1" [] n = 2 -> "Terminal 2" [] OTHER -> "Terminal 3"

\* the TerminalSession snapshot persistAllSessions writes for a terminal
\* a record written without the terminal's output buffer
SnapshotWithoutBuffer(t) ==
  [id |-> t.id, title |-> t.title, cwd |-> t.cwd, projectPath |-> t.projectPath,
   isClaudeMode |-> t.isClaudeMode, claudeSessionId |-> t.claudeSessionId,
   outputBuffer |-> <<>>]
\* the TerminalSession persistAllSessions builds from a terminal
Snapshot(t) ==
  [id |-> t.id, title |-> t.title, cwd |-> t.cwd, projectPath |-> t.projectPath,
   isClaudeMode |-> t.isClaudeMode, claudeSessionId |-> t.claudeSessionId,
   outputBuffer |-> t.outputBuffer]

RECURSIVE persistOver(_, _)
persistOver(st, hs) ==
  IF hs = {} THEN st
  ELSE LET h == Min(hs)
       IN persistOver(IF procs[h].projectPath # None
                      THEN saveSession(st, Snapshot(procs[h])) ELSE st,
                      hs \ {h})
\* the loop without `if (terminal.projectPath)`
persistAllSessionsUnfiltered(st) ==
  LET RECURSIVE over(_, _)
      over(s, hs) == IF hs = {} THEN s
                     ELSE over(saveSession(s, Snapshot(procs[Min(hs)])), hs \ {Min(hs)})
  IN over(st, Registered)
persistAllSessions(st) == persistOver(st, Registered)
PersistCalls ==
  LET hs == {h \in Registered : procs[h].projectPath # None}
      RECURSIVE seq(_)
      seq(S) == IF S = {} THEN <<>>
                ELSE LET h == Min(S)
                     IN <<Call("saveSession", procs[h].projectPath, procs[h].id, h)>> \o seq(S \ {h})
  IN seq(hs)

Init ==
  /\ terminals = EmptyMap
  /\ procs = EmptyMap
  /\ ptys = <<>>
  /\ store = EmptyMap
  /\ rateLimitNotifiedAt = EmptyMap
  /\ saveTimer = TRUE
  /\ polls = {}
  /\ restores = {}
  /\ files = EmptyMap
  /\ clock = StartClock
  /\ last = Step("init", None)
  /\ received = <<>>
  /\ arrived = EmptyMap
  /\ forwarded = EmptyMap
  /\ discovered = <<>>
  /\ awaiting = <<>>
  /\ removals = <<>>
  /\ launchedAt = EmptyMap

(* ---------------- create ---------------- *)
\* What create({id, cwd, projectPath}) returns and leaves behind; spawnOk:
\* whether pty.spawn returns or throws.  h is the terminal registered under
\* id afterwards (0: none).
createResult(id, cwd, projectPath, spawnOk) ==
  IF has(id)
  THEN [ok |-> TRUE, h |-> terminals[id], spawned |-> 0, terminals |-> terminals,
        procs |-> procs, ptys |-> ptys, store |-> store, calls |-> <<>>]
  ELSE IF ~spawnOk
  THEN [ok |-> FALSE, h |-> 0, spawned |-> 0, terminals |-> terminals,
        procs |-> procs, ptys |-> ptys, store |-> store, calls |-> <<>>]
  ELSE LET h == Len(ptys) + 1
           terminalCwd == IF cwd # None THEN cwd ELSE HomeDir
           terminal == [id |-> id, isClaudeMode |-> FALSE, projectPath |-> projectPath,
                        cwd |-> terminalCwd, claudeSessionId |-> None,
                        outputBuffer |-> <<>>,
                        title |-> TerminalTitle(Cardinality(DOMAIN terminals) + 1)]
       IN [ok |-> TRUE, h |-> h, spawned |-> h,
           terminals |-> Put(terminals, id, h),
           procs |-> Put(procs, h, terminal),
           ptys |-> Append(ptys, "live"),
           store |-> IF projectPath # None
                     THEN saveSession(store, [Snapshot(terminal) EXCEPT
                                                !.isClaudeMode = FALSE, !.outputBuffer = <<>>])
                     ELSE store,
           calls |-> IF projectPath # None
                     THEN <<Call("saveSession", projectPath, id, h)>> ELSE <<>>]

create(id, cwd, projectPath, spawnOk) ==
  /\ LET r == createResult(id, cwd, projectPath, spawnOk)
     IN /\ terminals' = r.terminals
        /\ procs' = r.procs
        /\ ptys' = r.ptys
        /\ store' = r.store
        /\ last' = [Step("create", id) EXCEPT !.ok = r.ok, !.h = r.h, !.arg = projectPath,
                      !.spawned = r.spawned, !.calls = r.calls]
  /\ UNCHANGED <<rateLimitNotifiedAt, saveTimer, polls, restores, files, clock>>

(* ---------------- destroy ---------------- *)
\* killOk: whether pty.kill() returns or throws
destroy(id, killOk) ==
  /\ IF ~has(id)
     THEN /\ UNCHANGED <<terminals, ptys, store>>
          /\ last' = [Step("destroy", id) EXCEPT !.ok = FALSE, !.arg = "Terminal not found"]
     ELSE LET h == terminals[id]
              terminal == procs[h]
              removed == IF terminal.projectPath # None
                         THEN removeSession(store, terminal.projectPath, id) ELSE store
              calls == IF terminal.projectPath # None
                       THEN <<Call("removeSession", terminal.projectPath, id, h)>> ELSE <<>>
          IN /\ store' = removed
             /\ IF killOk
                THEN /\ ptys' = [ptys EXCEPT ![h] = IF @ = "exited" THEN @ ELSE "killed"]
                     /\ terminals' = Remove(terminals, id)
                     /\ last' = [Step("destroy", id) EXCEPT !.h = h, !.calls = calls,
                                   !.writes = <<Write(h, "kill", None)>>]
                ELSE /\ UNCHANGED <<ptys, terminals>>
                     /\ last' = [Step("destroy", id) EXCEPT !.h = h, !.ok = FALSE,
                                   !.arg = "Failed to destroy terminal", !.calls = calls,
                                   !.writes = <<Write(h, "kill", None)>>]
  /\ UNCHANGED <<procs, rateLimitNotifiedAt, saveTimer, polls, restores, files, clock>>

(* ---------------- pty exit ---------------- *)
\* a suspended restore holds terminal object h
Held(h, pending) == \E r \in pending : r.h = h

\* an onExit handler without `this.terminals.delete(id)`
onExitKeepsRecord(h, exitCode) ==
  /\ h \in 1..Len(ptys)
  /\ ptys[h] \in {"live", "killed"}
  /\ LET terminal == procs[h]
         id == terminal.id
     IN /\ ptys' = [ptys EXCEPT ![h] = "exited"]
        /\ store' = IF terminal.projectPath # None
                    THEN removeSession(store, terminal.projectPath, id) ELSE store
        /\ last' = [Step("exit", id) EXCEPT
                      !.h = h,
                      !.sent = <<Note("exit", id, h, None, exitCode, <<>>)>>,
                      !.calls = IF terminal.projectPath # None
                                THEN <<Call("removeSession", terminal.projectPath, id, h)>>
                                ELSE <<>>]
  /\ UNCHANGED <<terminals, procs, rateLimitNotifiedAt, saveTimer, polls, restores, files, clock>>

\* the onExit handler create wired to pty h; it closes over `terminal` and `id`
onExit(h, exitCode) ==
  /\ h \in 1..Len(ptys)
  /\ ptys[h] \in {"live", "killed"}
  /\ LET terminal == procs[h]
         id == terminal.id
     IN /\ ptys' = [ptys EXCEPT ![h] = "exited"]
        /\ store' = IF terminal.projectPath # None
                    THEN removeSession(store, terminal.projectPath, id) ELSE store
        /\ terminals' = Remove(terminals, id)
        /\ procs' = IF Held(h, restores) THEN procs ELSE Remove(procs, h)
        /\ last' = [Step("exit", id) EXCEPT
                      !.h = h,
                      !.sent = <<Note("exit", id, h, None, exitCode, <<>>)>>,
                      !.calls = IF terminal.projectPath # None
                                THEN <<Call("removeSession", terminal.projectPath, id, h)>>
                                ELSE <<>>]
  /\ UNCHANGED <<rateLimitNotifiedAt, saveTimer, polls, restores, files, clock>>

(* ---------------- pty output ---------------- *)
\* the test without `!terminal.claudeSessionId`
shouldExtractAlways(terminal) == terminal.isClaudeMode
\* the test without `terminal.isClaudeMode`
shouldExtractInAnyMode(terminal) == terminal.claudeSessionId = None
\* if (terminal.isClaudeMode && !terminal.claudeSessionId)
shouldExtract(terminal) == terminal.isClaudeMode /\ terminal.claudeSessionId = None
\* this.rateLimitNotifiedAt.get(id) || 0
lastNotifiedAt(id) ==
  IF id \in DOMAIN rateLimitNotifiedAt THEN rateLimitNotifiedAt[id] ELSE 0
\* the comparison with >= in place of >
coolDownOverInclusive(now, lastNotified) == now - lastNotified >= RateLimitCooldown
\* if (now - lastNotified > 60000)
coolDownOver(now, lastNotified) == now - lastNotified > RateLimitCooldown

\* an output notification that carries the buffer in place of the chunk
forwardBuffer(id, h, data) ==
  <<Note("output", id, h, None, 0, appendOutput(procs[h].outputBuffer, data))>>
\* win.webContents.send(IPC_CHANNELS.TERMINAL_OUTPUT, id, data)
forwardOutput(id, h, data) == <<Note("output", id, h, None, 0, data)>>

\* the onData handler create wired to pty h; it closes over `terminal` and `id`
onData(h, data) ==
  /\ h \in 1..Len(ptys)
  /\ ptys[h] \in {"live", "killed"}
  /\ LET terminal == procs[h]
         id == terminal.id
         sessionId == IF shouldExtract(terminal) THEN extractClaudeSessionId(data) ELSE None
         resetTime == IF terminal.isClaudeMode THEN rateLimitMatch(data) ELSE None
         notify == resetTime # None /\ coolDownOver(clock, lastNotifiedAt(id))
         persist == sessionId # None /\ terminal.projectPath # None
     IN /\ procs' = [procs EXCEPT
                       ![h].outputBuffer = appendOutput(terminal.outputBuffer, data),
                       ![h].claudeSessionId = IF sessionId # None THEN sessionId ELSE @]
        /\ store' = IF persist
                    THEN updateClaudeSessionId(store, terminal.projectPath, id, sessionId)
                    ELSE store
        /\ rateLimitNotifiedAt' = IF notify THEN Put(rateLimitNotifiedAt, id, clock)
                                  ELSE rateLimitNotifiedAt
        /\ last' = [Step("data", id) EXCEPT
                      !.h = h,
                      !.calls = IF persist
                                THEN <<Call("updateClaudeSessionId", terminal.projectPath, id, h)>>
                                ELSE <<>>,
                      !.sent = (IF sessionId # None
                                THEN <<Note("claudeSession", id, h, sessionId, 0, <<>>)>> ELSE <<>>)
                               \o (IF notify
                                   THEN <<Note("rateLimit", id, h, resetTime, clock, <<>>)>> ELSE <<>>)
                               \o forwardOutput(id, h, data),
                      !.input = data]
  /\ UNCHANGED <<terminals, ptys, saveTimer, polls, restores, files, clock>>

(* ---------------- write / resize / setTitle ---------------- *)
\* write without the `if (terminal)` test
writeUnguarded(id, data) ==
  /\ last' = [Step("write", id) EXCEPT
                !.h = IF has(id) THEN terminals[id] ELSE 0,
                !.writes = <<Write(IF has(id) THEN terminals[id] ELSE 0, "write", data)>>]
  /\ UNCHANGED pvars

write(id, data) ==
  /\ last' = IF has(id)
             THEN [Step("write", id) EXCEPT !.h = terminals[id],
                     !.writes = <<Write(terminals[id], "write", data)>>]
             ELSE Step("write", id)
  /\ UNCHANGED pvars

resize(id, size) ==
  /\ last' = IF has(id)
             THEN [Step("resize", id) EXCEPT !.h = terminals[id],
                     !.writes = <<Write(terminals[id], "resize", size)>>]
             ELSE Step("resize", id)
  /\ UNCHANGED pvars

setTitle(id, title) ==
  /\ procs' = IF has(id) THEN [procs EXCEPT ![terminals[id]].title = title] ELSE procs
  /\ last' = IF has(id) THEN [Step("setTitle", id) EXCEPT !.h = terminals[id]]
             ELSE Step("setTitle", id)
  /\ UNCHANGED <<terminals, ptys, store, rateLimitNotifiedAt, saveTimer, polls, restores,
                 files, clock>>

\* isClaudeMode(id): terminal?.isClaudeMode ?? false
isClaudeMode(id) == IF has(id) THEN procs[terminals[id]].isClaudeMode ELSE FALSE
\* getClaudeSessionId(id): terminal?.claudeSessionId
getClaudeSessionId(id) == IF has(id) THEN procs[terminals[id]].claudeSessionId ELSE None
getActiveTerminalIds == DOMAIN terminals

(* ---------------- polling capture ---------------- *)
\* captureClaudeSessionId: the chain it schedules (none when the id is unknown)
captureClaudeSessionId(terminalId, projectPath, startTime) ==
  IF has(terminalId)
  THEN {[terminalId |-> terminalId, projectPath |-> projectPath,
         startTime |-> startTime, attempts |-> 0]}
  ELSE {}

\* the top of checkForSession without the `currentTerminal.claudeSessionId` test
probeProceedsWithKnownId(terminalId) ==
  /\ has(terminalId)
  /\ procs[terminals[terminalId]].isClaudeMode

\* the top of checkForSession without the `!currentTerminal.isClaudeMode` test
probeProceedsInAnyMode(terminalId) ==
  /\ has(terminalId)
  /\ procs[terminals[terminalId]].claudeSessionId = None

\* the top of checkForSession: the chain goes on to scan the directory
probeProceeds(terminalId) ==
  /\ has(terminalId)
  /\ procs[terminals[terminalId]].isClaudeMode
  /\ procs[terminals[terminalId]].claudeSessionId = None

\* the retry test with <= in place of <
mayRetryInclusive(attempts) == attempts <= maxAttempts
\* else if (attempts < maxAttempts)
mayRetry(attempts) == attempts < maxAttempts

\* one firing of a chain's timer
checkForSession(poll) ==
  /\ poll \in polls
  /\ LET attempts == poll.attempts + 1
         terminalId == poll.terminalId
     IN IF ~probeProceeds(terminalId)
        THEN /\ polls' = polls \ {poll}
             /\ last' = [Step("probe", terminalId) EXCEPT !.arg = "stop"]
             /\ UNCHANGED <<procs, store>>
        ELSE LET h == terminals[terminalId]
                 currentTerminal == procs[h]
                 sessionId == findClaudeSessionAfter(poll.projectPath, poll.startTime)
             IN IF sessionId # None
                THEN /\ procs' = [procs EXCEPT ![h].claudeSessionId = sessionId]
                     /\ store' = IF currentTerminal.projectPath # None
                                 THEN updateClaudeSessionId(store, currentTerminal.projectPath,
                                                            terminalId, sessionId)
                                 ELSE store
                     /\ polls' = polls \ {poll}
                     /\ last' = [Step("probe", terminalId) EXCEPT
                                   !.h = h, !.arg = "found", !.scanned = TRUE,
                                   !.calls = IF currentTerminal.projectPath # None
                                             THEN <<Call("updateClaudeSessionId",
                                                         currentTerminal.projectPath, terminalId, h)>>
                                             ELSE <<>>,
                                   !.sent = <<Note("claudeSession", terminalId, h, sessionId, 0, <<>>)>>]
                ELSE /\ polls' = IF mayRetry(attempts)
                                 THEN (polls \ {poll}) \cup {[poll EXCEPT !.attempts = attempts]}
                                 ELSE polls \ {poll}
                     /\ last' = [Step("probe", terminalId) EXCEPT
                                   !.h = h, !.scanned = TRUE,
                                   !.arg = IF mayRetry(attempts) THEN "retry" ELSE "abandon",
                                   !.scheduled = IF mayRetry(attempts) THEN 1 ELSE 0]
                     /\ UNCHANGED <<procs, store>>
  /\ UNCHANGED <<terminals, ptys, rateLimitNotifiedAt, saveTimer, restores, files, clock>>

(* ---------------- invokeClaude / resumeClaude ---------------- *)
invokeClaude(id, cwd) ==
  /\ IF ~has(id)
     THEN /\ last' = Step("invokeClaude", id)
          /\ UNCHANGED <<procs, store, polls>>
     ELSE LET h == terminals[id]
              terminal == procs[h]
              startTime == clock
              projectPath == IF cwd # None THEN cwd
                             ELSE IF terminal.projectPath # None THEN terminal.projectPath
                             ELSE terminal.cwd
              saved == terminal.projectPath # None /\ hasSession(store, terminal.projectPath, id)
              chain == captureClaudeSessionId(id, projectPath, startTime)
          IN /\ procs' = [procs EXCEPT ![h].isClaudeMode = TRUE, ![h].claudeSessionId = None]
             /\ store' = IF saved
                         THEN saveSession(store, [getSession(store, terminal.projectPath, id)
                                                    EXCEPT !.isClaudeMode = TRUE])
                         ELSE store
             /\ polls' = polls \cup chain
             /\ last' = [Step("invokeClaude", id) EXCEPT
                           !.h = h,
                           !.writes = <<Write(h, "claude", cwd)>>,
                           !.sent = <<Note("titleChange", id, h, "Claude", 0, <<>>)>>,
                           !.calls = IF terminal.projectPath # None
                                     THEN <<Call("getSession", terminal.projectPath, id, h)>>
                                          \o (IF saved
                                              THEN <<Call("saveSession", terminal.projectPath, id, h)>>
                                              ELSE <<>>)
                                     ELSE <<>>,
                           !.scheduled = Cardinality(chain \ polls)]
  /\ UNCHANGED <<terminals, ptys, rateLimitNotifiedAt, saveTimer, restores, files, clock>>

\* resumeClaude clearing the id when none is supplied, as invokeClaude does
resumeClaudeClearsId(id, sessionId) ==
  /\ IF ~has(id)
     THEN /\ last' = Step("resumeClaude", id)
          /\ UNCHANGED procs
     ELSE LET h == terminals[id]
          IN /\ procs' = [procs EXCEPT ![h].isClaudeMode = TRUE, ![h].claudeSessionId = sessionId]
             /\ last' = [Step("resumeClaude", id) EXCEPT
                           !.h = h, !.arg = sessionId,
                           !.writes = <<Write(h, IF sessionId # None THEN "claude --resume"
                                                 ELSE "claude --continue", sessionId)>>,
                           !.sent = <<Note("titleChange", id, h, "Claude", 0, <<>>)>>]
  /\ UNCHANGED <<terminals, ptys, store, rateLimitNotifiedAt, saveTimer, polls, restores,
                 files, clock>>

resumeClaude(id, sessionId) ==
  /\ IF ~has(id)
     THEN /\ last' = Step("resumeClaude", id)
          /\ UNCHANGED procs
     ELSE LET h == terminals[id]
          IN /\ procs' = [procs EXCEPT ![h].isClaudeMode = TRUE,
                                       ![h].claudeSessionId = IF sessionId # None THEN sessionId ELSE @]
             /\ last' = [Step("resumeClaude", id) EXCEPT
                           !.h = h, !.arg = sessionId,
                           !.writes = <<Write(h, IF sessionId # None THEN "claude --resume"
                                                 ELSE "claude --continue", sessionId)>>,
                           !.sent = <<Note("titleChange", id, h, "Claude", 0, <<>>)>>]
  /\ UNCHANGED <<terminals, ptys, store, rateLimitNotifiedAt, saveTimer, polls, restores,
                 files, clock>>

(* ---------------- restore ---------------- *)
\* a restore that also assigns the saved mode flag before the settle delay
restoreAppliesSavedMode(session, spawnOk) ==
  /\ LET r == createResult(session.id, session.cwd, session.projectPath, spawnOk)
     IN /\ terminals' = r.terminals
        /\ ptys' = r.ptys
        /\ store' = r.store
        /\ IF ~r.ok
           THEN /\ procs' = r.procs
                /\ restores' = restores
                /\ last' = [Step("restore", session.id) EXCEPT !.ok = FALSE]
           ELSE /\ procs' = [r.procs EXCEPT ![r.h].title = session.title,
                                           ![r.h].isClaudeMode = session.isClaudeMode]
                /\ restores' = IF session.isClaudeMode
                               THEN restores \cup {[h |-> r.h, session |-> session]}
                               ELSE restores
                /\ last' = [Step("restore", session.id) EXCEPT
                              !.h = r.h, !.spawned = r.spawned, !.calls = r.calls,
                              !.arg = IF session.isClaudeMode THEN "settling" ELSE "returned",
                              !.outputBuffer = IF session.isClaudeMode THEN <<>>
                                               ELSE session.outputBuffer]
  /\ UNCHANGED <<rateLimitNotifiedAt, saveTimer, polls, files, clock>>

\* restore(session) up to its settle delay: the create, the title, and for a
\* session that was not in Claude mode the return.  A session in Claude mode
\* suspends in `restores` with the terminal object it looked up.
restore(session, spawnOk) ==
  /\ LET r == createResult(session.id, session.cwd, session.projectPath, spawnOk)
     IN /\ terminals' = r.terminals
        /\ ptys' = r.ptys
        /\ store' = r.store
        /\ IF ~r.ok
           THEN /\ procs' = r.procs
                /\ restores' = restores
                /\ last' = [Step("restore", session.id) EXCEPT !.ok = FALSE]
           ELSE /\ procs' = [r.procs EXCEPT ![r.h].title = session.title]
                /\ restores' = IF session.isClaudeMode
                               THEN restores \cup {[h |-> r.h, session |-> session]}
                               ELSE restores
                /\ last' = [Step("restore", session.id) EXCEPT
                              !.h = r.h, !.spawned = r.spawned, !.calls = r.calls,
                              !.arg = IF session.isClaudeMode THEN "settling" ELSE "returned",
                              !.outputBuffer = IF session.isClaudeMode THEN <<>>
                                               ELSE session.outputBuffer]
  /\ UNCHANGED <<rateLimitNotifiedAt, saveTimer, polls, files, clock>>

\* restore after the settle delay: the resume of a session that was in Claude mode
restoreResume(pending) ==
  /\ pending \in restores
  /\ LET h == pending.h
         session == pending.session
         projectDir == IF session.cwd # None THEN session.cwd ELSE session.projectPath
         startTime == clock
         chain == IF session.claudeSessionId = None /\ projectDir # None
                  THEN captureClaudeSessionId(session.id, projectDir, startTime)
                  ELSE {}
         resumed == [procs EXCEPT ![h].isClaudeMode = TRUE,
                                  ![h].claudeSessionId = session.claudeSessionId]
     IN /\ procs' = IF ptys[h] = "exited" /\ ~Held(h, restores \ {pending})
                    THEN Remove(resumed, h) ELSE resumed
        /\ polls' = polls \cup chain
        /\ restores' = restores \ {pending}
        /\ last' = [Step("restoreResume", session.id) EXCEPT
                      !.h = h, !.arg = session.claudeSessionId,
                      !.outputBuffer = session.outputBuffer,
                      !.writes = <<Write(h, IF session.claudeSessionId # None
                                            THEN "claude --resume" ELSE "claude --resume (picker)",
                                         session.claudeSessionId)>>,
                      !.sent = <<Note("titleChange", session.id, h, "Claude", 0, <<>>)>>,
                      !.scheduled = Cardinality(chain \ polls)]
  /\ UNCHANGED <<terminals, ptys, store, rateLimitNotifiedAt, saveTimer, files, clock>>

(* ---------------- persistence bridge ---------------- *)
\* one firing of the setInterval timer
saveTimerFires ==
  /\ saveTimer
  /\ store' = persistAllSessions(store)
  /\ last' = [Step("saveTimer", None) EXCEPT !.calls = PersistCalls]
  /\ UNCHANGED <<terminals, procs, ptys, rateLimitNotifiedAt, saveTimer, polls, restores,
                 files, clock>>

clearSavedSessions(projectPath) ==
  /\ store' = clearProjectSessions(store, projectPath)
  /\ last' = [Step("clearSavedSessions", None) EXCEPT
                !.calls = <<Call("clearProjectSessions", projectPath, None, 0)>>]
  /\ UNCHANGED <<terminals, procs, ptys, rateLimitNotifiedAt, saveTimer, polls, restores,
                 files, clock>>

(* ---------------- killAll ---------------- *)
RECURSIVE killCalls(_)
killCalls(hs) ==
  IF hs = {} THEN <<>>
  ELSE <<Write(Min(hs), "kill", None)>> \o killCalls(hs \ {Min(hs)})

\* failing: the terminals whose pty.kill() throws
killAll(failing) ==
  /\ failing \subseteq Registered
  /\ store' = persistAllSessions(store)
  /\ saveTimer' = FALSE
  /\ ptys' = [h \in 1..Len(ptys) |->
                IF h \in Registered /\ h \notin failing /\ ptys[h] # "exited"
                THEN "killed" ELSE ptys[h]]
  /\ terminals' = EmptyMap
  /\ last' = [Step("killAll", None) EXCEPT !.calls = PersistCalls,
                !.writes = killCalls(Registered)]
  /\ UNCHANGED <<procs, rateLimitNotifiedAt, polls, restores, files, clock>>

(* ---------------- the handlers when a store call throws ---------------- *)
\* create when store.saveSession (line 307) throws: the throw is inside the
\* try, after terminals.set and the wiring of both handlers
createStoreFails(id, cwd, projectPath) ==
  /\ ~has(id)
  /\ projectPath # None
  /\ LET r == createResult(id, cwd, projectPath, TRUE)
     IN /\ terminals' = r.terminals
        /\ procs' = r.procs
        /\ ptys' = r.ptys
        /\ last' = [Step("create", id) EXCEPT !.ok = FALSE, !.h = r.h, !.arg = projectPath,
                      !.spawned = r.spawned, !.threw = r.calls]
  /\ UNCHANGED <<store, rateLimitNotifiedAt, saveTimer, polls, restores, files, clock>>

\* destroy when store.removeSession (line 417) throws: the throw is inside
\* the try, before pty.kill() and terminals.delete
destroyStoreFails(id) ==
  /\ has(id)
  /\ procs[terminals[id]].projectPath # None
  /\ LET h == terminals[id]
     IN last' = [Step("destroy", id) EXCEPT !.h = h, !.ok = FALSE,
                   !.arg = "Failed to destroy terminal",
                   !.threw = <<Call("removeSession", procs[h].projectPath, id, h)>>]
  /\ UNCHANGED pvars

\* the onExit handler when store.removeSession (line 298) throws: the exit
\* notification is out, terminals.delete is not reached
onExitStoreFails(h, exitCode) ==
  /\ h \in 1..Len(ptys)
  /\ ptys[h] \in {"live", "killed"}
  /\ procs[h].projectPath # None
  /\ LET terminal == procs[h]
         id == terminal.id
     IN /\ ptys' = [ptys EXCEPT ![h] = "exited"]
        /\ procs' = IF Held(h, restores) \/ h \in Registered THEN procs ELSE Remove(procs, h)
        /\ last' = [Step("exit", id) EXCEPT
                      !.h = h,
                      !.sent = <<Note("exit", id, h, None, exitCode, <<>>)>>,
                      !.threw = <<Call("removeSession", terminal.projectPath, id, h)>>]
  /\ UNCHANGED <<terminals, store, rateLimitNotifiedAt, saveTimer, polls, restores, files, clock>>

\* the onData handler when store.updateClaudeSessionId (line 245) throws: the
\* buffer and terminal.claudeSessionId are assigned, nothing is sent
onDataStoreFails(h, data) ==
  /\ h \in 1..Len(ptys)
  /\ ptys[h] \in {"live", "killed"}
  /\ LET terminal == procs[h]
         id == terminal.id
         sessionId == IF shouldExtract(terminal) THEN extractClaudeSessionId(data) ELSE None
     IN /\ sessionId # None
        /\ terminal.projectPath # None
        /\ procs' = [procs EXCEPT
                       ![h].outputBuffer = appendOutput(terminal.outputBuffer, data),
                       ![h].claudeSessionId = sessionId]
        /\ last' = [Step("data", id) EXCEPT
                      !.h = h, !.input = data,
                      !.threw = <<Call("updateClaudeSessionId", terminal.projectPath, id, h)>>]
  /\ UNCHANGED <<terminals, ptys, store, rateLimitNotifiedAt, saveTimer, polls, restores,
                 files, clock>>

\* restore when the store.saveSession of its create (line 307) throws: create
\* returns failure and restore returns it (lines 345-347)
restoreStoreFails(session) ==
  /\ ~has(session.id)
  /\ session.projectPath # None
  /\ LET r == createResult(session.id, session.cwd, session.projectPath, TRUE)
     IN /\ terminals' = r.terminals
        /\ procs' = r.procs
        /\ ptys' = r.ptys
        /\ last' = [Step("restore", session.id) EXCEPT !.ok = FALSE, !.h = r.h,
                      !.spawned = r.spawned, !.threw = r.calls]
  /\ UNCHANGED <<store, rateLimitNotifiedAt, saveTimer, polls, restores, files, clock>>

\* killAll when the first store.saveSession of persistAllSessions (line 158)
\* throws: line 596 is outside any try, so killAll rejects there
killAllStoreFails ==
  /\ PersistCalls # <<>>
  /\ last' = [Step("killAll", None) EXCEPT !.ok = FALSE, !.threw = <<PersistCalls[1]>>]
  /\ UNCHANGED pvars

(* ---------------- environment ---------------- *)
\* time passes
tick(d) ==
  /\ clock' = clock + d
  /\ last' = Step("tick", None)
  /\ UNCHANGED <<terminals, procs, ptys, store, rateLimitNotifiedAt, saveTimer, polls,
                 restores, files>>

\* the assistant tool writes (or touches) a file in a project's log directory
touchFile(projectPath, name, ext) ==
  /\ LET dir == IF projectPath \in DOMAIN files THEN files[projectPath] ELSE {}
         f == [name |-> name, ext |-> ext, mtime |-> clock]
     IN /\ f \notin dir
        /\ files' = Put(files, projectPath,
                        {g \in dir : ~(g.name = name /\ g.ext = ext)} \cup {f})
  /\ last' = Step("touchFile", None)
  /\ UNCHANGED <<terminals, procs, ptys, store, rateLimitNotifiedAt, saveTimer, polls,
                 restores, clock>>

\* a call of findClaudeSessionAfter(projectPath, afterTimestamp)
scan(projectPath, afterTimestamp) ==
  /\ last' = [Step("scan", None) EXCEPT
                !.arg = findClaudeSessionAfter(projectPath, afterTimestamp),
                !.input = <<projectPath, afterTimestamp>>]
  /\ UNCHANGED pvars

(* ---------------- history variables ---------------- *)
CountNotes(sent, ch, h) == Cardinality({i \in 1..Len(sent) : sent[i].ch = ch /\ sent[i].h = h})
CountCalls(calls, fn, h) == Cardinality({i \in 1..Len(calls) : calls[i].fn = fn /\ calls[i].h = h})
\* the chunk of a data step
ChunkOf(step) == step.input
Old(hist, h, default) == IF h <= Len(hist) THEN hist[h] ELSE default

\* the step clears terminal h's session id for a new capture
Clears(step, h) ==
  /\ step.h = h
  /\ \/ step.op = "invokeClaude"
     \/ step.op = "restoreResume" /\ step.arg = None

Track ==
  /\ discovered' = [h \in 1..Len(ptys') |->
                      (IF Clears(last', h) THEN 0 ELSE Old(discovered, h, 0))
                      + CountNotes(last'.sent, "claudeSession", h)]
  /\ awaiting' = [h \in 1..Len(ptys') |->
                    IF last'.op = "invokeClaude" /\ last'.h = h THEN TRUE
                    ELSE IF /\ last'.op = "data" /\ last'.h = h
                            /\ extractClaudeSessionId(ChunkOf(last')) # None THEN FALSE
                    ELSE Old(awaiting, h, FALSE)]
  /\ removals' = [h \in 1..Len(ptys') |->
                    Old(removals, h, 0) + CountCalls(last'.calls, "removeSession", h)]

TrackOutput ==
  received' = [h \in 1..Len(ptys') |->
                 IF last'.op = "data" /\ last'.h = h
                 THEN Old(received, h, <<>>) \o last'.input
                 ELSE Old(received, h, <<>>)]

(* ---------------- what the environment may do within the bounds ---------------- *)
\* the chunks delivered and the output payloads sent, per id
OutputsOf(step, id) ==
  LET is == {i \in 1..Len(step.sent) : step.sent[i].ch = "output" /\ step.sent[i].id = id}
      RECURSIVE seq(_)
      seq(S) == IF S = {} THEN <<>>
                ELSE <<step.sent[Min(S)].data>> \o seq(S \ {Min(S)})
  IN seq(is)
HistoryOf(hist, id) == IF id \in DOMAIN hist THEN hist[id] ELSE <<>>
TrackForward ==
  /\ arrived' = IF last'.op = "data"
                THEN Put(arrived, last'.id, Append(HistoryOf(arrived, last'.id), last'.input))
                ELSE arrived
  /\ forwarded' = [id \in DOMAIN forwarded \cup {n \in Ids : OutputsOf(last', n) # <<>>} |->
                     HistoryOf(forwarded, id) \o OutputsOf(last', id)]

H == Track /\ UNCHANGED <<received, arrived, forwarded, launchedAt>>
\* the history variables are not kept
HN == UNCHANGED <<received, arrived, forwarded, discovered, awaiting, removals, launchedAt>>
\* with the time each terminal's assistant was last launched
TrackLaunch ==
  launchedAt' = IF last'.op \in {"invokeClaude", "restoreResume"} /\ last'.h # 0
                THEN Put(launchedAt, last'.h, clock)
                ELSE launchedAt
HL == TrackLaunch /\ UNCHANGED <<received, arrived, forwarded, discovered, awaiting, removals>>
\* with the history of chunks and output notifications per id
HF == Track /\ TrackForward /\ UNCHANGED <<received, launchedAt>>
\* a pty may still be spawned for id
CanSpawn(id, n) == has(id) \/ Len(ptys) < n
\* a capture chain may still be started
CanPoll == Cardinality(polls) < MaxPolls
\* a chain's timer may still fire
CanProbe(poll) == poll.attempts < MaxProbes
CanSettle(session) == ~session.isClaudeMode \/ Cardinality(restores) < MaxRestores
CanTick(d) == clock + d <= StartClock + MaxClock * d
\* the assistant is launched in a terminal that is not in assistant mode yet
CanInvoke(id) == has(id) /\ ~procs[terminals[id]].isClaudeMode
SavedSessions == {store[k] : k \in DOMAIN store}
Handles == 1..Len(ptys)

(* ---------------- registry lifecycle: create, destroy, killAll, pty events ---------------- *)
NextLife ==
  \/ \E projectPath \in {"/p", None} :
       CanSpawn("t1", MaxSpawn) /\ create("t1", None, projectPath, TRUE) /\ H
  \/ destroy("t1", TRUE) /\ H
  \/ \E h \in Handles : onExit(h, 0) /\ H
  \/ \E h \in Handles : onData(h, <<"x">>) /\ H
  \/ killAll({}) /\ H
  \/ saveTimerFires /\ H

SpecLife == Init /\ [][NextLife]_vars

\* the registry where pty.spawn and pty.kill() may throw
\* pty.kill() of id's terminal may throw once more
CanFail(id) == has(id) => removals[terminals[id]] < MaxKillFailures

NextFaults ==
  \/ \E spawnOk \in BOOLEAN :
       CanSpawn("t1", MaxFaultSpawn) /\ create("t1", None, "/p", spawnOk) /\ H
  \/ \E killOk \in BOOLEAN : (killOk \/ CanFail("t1")) /\ destroy("t1", killOk) /\ H
  \/ \E h \in Handles : onExit(h, 0) /\ H
  \/ \E h \in Handles : onData(h, <<"x">>) /\ H
  \/ \E failing \in SUBSET Registered : killAll(failing) /\ H
  \/ saveTimerFires /\ H

SpecFaults == Init /\ [][NextFaults]_vars

(* ---------------- output buffering ---------------- *)
HO == Track /\ TrackOutput /\ UNCHANGED <<arrived, forwarded, launchedAt>>
BufferChunks ==
  {<<a>> : a \in TextUnits} \cup {<<a, b>> : a, b \in TextUnits}
  \cup {<<a, b, c>> : a, b, c \in {"x"}}
CanReceive(h, data) == Len(Old(received, h, <<>>)) + Len(data) <= MaxReceived

NextBuffer ==
  \/ CanSpawn("t1", MaxBufferSpawn) /\ create("t1", None, None, TRUE) /\ HO
  \/ destroy("t1", TRUE) /\ HO
  \/ \E h \in Handles : onExit(h, 0) /\ HO
  \/ \E h \in Handles, data \in BufferChunks :
       CanReceive(h, data) /\ onData(h, data) /\ HO

SpecBuffer == Init /\ [][NextBuffer]_vars

(* ---------------- commands naming an unknown id ---------------- *)
\* t1 is created, put in Claude mode and rate limited; t2 is never created
CommandOps == {"destroy", "write", "resize", "invokeClaude", "resumeClaude", "setTitle"}
RateChunk == <<"Limit reached . resets 6am">>

NextCommands ==
  \/ CanSpawn("t1", MaxCaptureSpawn) /\ create("t1", None, "/p", TRUE) /\ H
  \/ \E h \in Handles : onData(h, RateChunk) /\ H
  \/ \E id \in Ids : destroy(id, TRUE) /\ H
  \/ \E id \in Ids : write(id, <<"x">>) /\ H
  \/ \E id \in Ids : resize(id, "80x24") /\ H
  \/ \E id \in Ids, cwd \in {None, "/p"} :
       (has(id) => CanPoll) /\ invokeClaude(id, cwd) /\ H
  \/ \E id \in Ids, sessionId \in {None, "s2"} : resumeClaude(id, sessionId) /\ H
  \/ \E id \in Ids : setTitle(id, "title") /\ H

SpecCommands == Init /\ [][NextCommands]_vars

(* ---------------- pty exit and what follows it ---------------- *)
ExitChunk == <<"Session: s1", "Limit reached . resets 6am">>

NextExit ==
  \/ CanSpawn("t1", MaxCaptureSpawn) /\ create("t1", None, "/p", TRUE) /\ H
  \/ destroy("t1", TRUE) /\ H
  \/ \E h \in Handles, exitCode \in {0, 1} : onExit(h, exitCode) /\ H
  \/ \E h \in Handles : onData(h, ExitChunk) /\ H
  \/ CanPoll /\ invokeClaude("t1", None) /\ H
  \/ \E poll \in polls : CanProbe(poll) /\ checkForSession(poll) /\ H
  \/ saveTimerFires /\ H
  \/ killAll({}) /\ H

SpecExit == Init /\ [][NextExit]_vars

(* ---------------- resume and restore ---------------- *)
SessionChunks == {<<"Session: s1">>}

NextResume ==
  \/ CanSpawn("t1", MaxCaptureSpawn) /\ create("t1", None, "/p", TRUE) /\ H
  \/ \E h \in Handles, data \in SessionChunks : onData(h, data) /\ H
  \/ CanPoll /\ invokeClaude("t1", None) /\ H
  \/ resumeClaude("t1", "s2") /\ H
  \/ \E session \in SavedSessions :
       CanSpawn(session.id, MaxCaptureSpawn) /\ CanSettle(session)
       /\ restore(session, TRUE) /\ H
  \/ \E pending \in restores : CanPoll /\ restoreResume(pending) /\ H
  \/ \E poll \in polls : CanProbe(poll) /\ checkForSession(poll) /\ H
  \/ CanTick(1) /\ tick(1) /\ H
  \/ touchFile("/p", "s1", ".jsonl") /\ H

SpecResume == Init /\ [][NextResume]_vars

(* ---------------- assistant session capture ---------------- *)
AnnouncingChunks == {<<"Session: s1">>, <<"session_id=s2">>}

NextCapture ==
  \/ CanSpawn("t1", MaxCaptureSpawn) /\ create("t1", None, "/p", TRUE) /\ H
  \/ \E h \in Handles : onExit(h, 0) /\ H
  \/ \E h \in Handles, data \in AnnouncingChunks : onData(h, data) /\ H
  \/ CanPoll /\ invokeClaude("t1", None) /\ H
  \/ \E poll \in polls : CanProbe(poll) /\ checkForSession(poll) /\ H
  \/ CanTick(1) /\ tick(1) /\ H
  \/ touchFile("/p", "s1", ".jsonl") /\ H

SpecCapture == Init /\ [][NextCapture]_vars

(* ---------------- rate-limit notices ---------------- *)
\* the clock may still advance by d
CanAdvance(d) == clock + d <= StartClock + MaxElapsed

NextRate ==
  \/ \E id \in Ids : CanSpawn(id, MaxRateSpawn) /\ create(id, None, None, TRUE) /\ H
  \/ \E id \in Ids : resumeClaude(id, "s1") /\ H
  \/ \E h \in Handles : onData(h, RateChunk) /\ H
  \/ \E d \in {RateLimitCooldown, RateLimitCooldown + 1} : CanAdvance(d) /\ tick(d) /\ H

SpecRate == Init /\ [][NextRate]_vars

(* ---------------- signal detection on output ---------------- *)
SignalChunks == {<<"x">>, <<"Session: s1">>, <<"Limit reached . resets 6am", "session_id=s2">>}

\* terminals with and without a project path, in and out of Claude mode
NextSignal ==
  \/ \E projectPath \in {"/p", None} :
       CanSpawn("t1", MaxCaptureSpawn) /\ create("t1", None, projectPath, TRUE) /\ H
  \/ destroy("t1", TRUE) /\ H
  \/ \E h \in Handles : onExit(h, 0) /\ H
  \/ \E h \in Handles, data \in SignalChunks : onData(h, data) /\ H
  \/ \E sessionId \in {None, "s2"} : resumeClaude("t1", sessionId) /\ H

SpecSignal == Init /\ [][NextSignal]_vars

(* ---------------- output forwarding ---------------- *)
OutputChunks == {<<"x">>, <<"y", "x">>, <<"Session: s1", "Limit reached . resets 6am">>}
\* a pty of id may still deliver a chunk
CanArrive(id) == Len(HistoryOf(arrived, id)) < MaxChunks

\* one id whose ptys, the killed one too, deliver plain and signal chunks
NextOutput ==
  \/ CanSpawn("t1", MaxOutputSpawn) /\ create("t1", None, None, TRUE) /\ HF
  \/ destroy("t1", TRUE) /\ HF
  \/ \E h \in Handles : onExit(h, 0) /\ HF
  \/ \E h \in Handles, data \in OutputChunks :
       h \in DOMAIN procs /\ CanArrive(procs[h].id) /\ onData(h, data) /\ HF
  \/ resumeClaude("t1", None) /\ HF

SpecOutput == Init /\ [][NextOutput]_vars

(* ---------------- teardown of the process-wide state ---------------- *)
\* a rate-limited terminal, killAll, and the same id created again
NextTeardown ==
  \/ CanSpawn("t1", MaxRateSpawn) /\ create("t1", None, "/p", TRUE) /\ H
  \/ resumeClaude("t1", "s1") /\ H
  \/ \E h \in Handles : onData(h, RateChunk) /\ H
  \/ \E h \in Handles : onExit(h, 0) /\ H
  \/ killAll({}) /\ H
  \/ saveTimerFires /\ H

SpecTeardown == Init /\ [][NextTeardown]_vars

(* ---------------- what reaches the store ---------------- *)
\* a terminal with or without a project path under every operation that
\* may write the store; killAll is the host's shutdown, no create follows it
NextPersist ==
  \/ \E projectPath \in {"/p", None} :
       saveTimer /\ CanSpawn("t1", MaxCaptureSpawn) /\ create("t1", None, projectPath, TRUE) /\ H
  \/ \E h \in Handles, data \in SessionChunks : onData(h, data) /\ H
  \/ CanPoll /\ invokeClaude("t1", "/p") /\ H
  \/ \E poll \in polls : CanProbe(poll) /\ checkForSession(poll) /\ H
  \/ CanTick(1) /\ tick(1) /\ H
  \/ touchFile("/p", "s1", ".jsonl") /\ H
  \/ saveTimerFires /\ H
  \/ killAll({}) /\ H

SpecPersist == Init /\ [][NextPersist]_vars

(* ---------------- the registry over a store whose calls may throw ---------------- *)
StoreChunks == {<<"x">>, <<"Session: s1">>}

NextStore ==
  \/ \E spawnOk \in BOOLEAN :
       CanSpawn("t1", MaxStoreSpawn) /\ create("t1", None, "/p", spawnOk) /\ H
  \/ CanSpawn("t1", MaxStoreSpawn) /\ createStoreFails("t1", None, "/p") /\ H
  \/ destroy("t1", TRUE) /\ H
  \/ destroyStoreFails("t1") /\ H
  \/ \E h \in Handles : onExit(h, 0) /\ H
  \/ \E h \in Handles : onExitStoreFails(h, 0) /\ H
  \/ resumeClaude("t1", None) /\ H
  \/ \E h \in Handles, data \in StoreChunks : onData(h, data) /\ H
  \/ \E h \in Handles, data \in StoreChunks : onDataStoreFails(h, data) /\ H
  \/ killAll({}) /\ H
  \/ killAllStoreFails /\ H

SpecStore == Init /\ [][NextStore]_vars

(* ---------------- invoking the assistant ---------------- *)
\* invokeClaude after create, output, capture probes, the periodic sync and
\* clearSavedSessions
NextInvoke ==
  \/ \E projectPath \in {"/p", None} :
       CanSpawn("t1", MaxInvokeSpawn) /\ create("t1", None, projectPath, TRUE) /\ H
  \/ \E cwd \in {None, "/q"} : CanPoll /\ invokeClaude("t1", cwd) /\ H
  \/ \E poll \in polls : CanProbe(poll) /\ checkForSession(poll) /\ H
  \/ \E h \in Handles : onData(h, <<"Session: s1">>) /\ H
  \/ clearSavedSessions("/p") /\ H
  \/ saveTimerFires /\ H
  \/ CanTick(1) /\ tick(1) /\ H
  \/ \E h \in Handles : onExit(h, 0) /\ H

SpecInvoke == Init /\ [][NextInvoke]_vars

(* ---------------- resuming the assistant ---------------- *)
\* resumeClaude with and without an id, on a terminal whose id is absent,
\* announced by the output, or set by an earlier resume
NextReopen ==
  \/ CanSpawn("t1", MaxReopenSpawn) /\ create("t1", None, "/p", TRUE) /\ H
  \/ \E sessionId \in {None, "s1", "s2"} : resumeClaude("t1", sessionId) /\ H
  \/ CanPoll /\ invokeClaude("t1", None) /\ H
  \/ \E h \in Handles, data \in StoreChunks : onData(h, data) /\ H
  \/ \E h \in Handles : onExit(h, 0) /\ H
  \/ saveTimerFires /\ H

SpecReopen == Init /\ [][NextReopen]_vars

(* ---------------- a capture chain to its end ---------------- *)
Probe == \E poll \in polls : checkForSession(poll) /\ H

NextPolling ==
  \/ CanSpawn("t1", MaxPollingSpawn) /\ create("t1", None, "/p", TRUE) /\ H
  \/ CanInvoke("t1") /\ invokeClaude("t1", None) /\ H
  \/ Probe
  \/ \E h \in Handles : onData(h, <<"Session: s1">>) /\ H
  \/ \E h \in Handles : onExit(h, 0) /\ H
  \/ CanTick(1) /\ tick(1) /\ H
  \/ touchFile("/p", "s1", ".jsonl") /\ H

\* a timer that was set fires: setTimeout callbacks are never cancelled
SpecPolling == Init /\ [][NextPolling]_vars /\ WF_vars(Probe)

(* ---------------- probes against destroy, exit, killAll and output ---------------- *)
NextStop ==
  \/ CanSpawn("t1", MaxStopSpawn) /\ create("t1", None, "/p", TRUE) /\ HN
  \/ CanPoll /\ CanInvoke("t1") /\ invokeClaude("t1", None) /\ HN
  \/ \E poll \in polls : CanProbe(poll) /\ checkForSession(poll) /\ HN
  \/ destroy("t1", TRUE) /\ HN
  \/ \E h \in Handles : onExit(h, 0) /\ HN
  \/ \E h \in Handles :
       h \in DOMAIN procs /\ shouldExtract(procs[h]) /\ onData(h, <<"Session: s1">>) /\ HN
  \/ killAll({}) /\ HN
  \/ clock = StartClock /\ tick(1) /\ HN
  \/ touchFile("/p", "s2", ".jsonl") /\ HN

SpecStop == Init /\ [][NextStop]_vars

(* ---------------- restoring saved sessions ---------------- *)
\* sessions are saved by killAll and the periodic sync and restored, while
\* the pty of the terminal being restored may be destroyed or exit during
\* the settle delay and the store may throw in restore's create
NextRestore ==
  \/ CanSpawn("t1", MaxRestoreSpawn) /\ create("t1", None, "/p", TRUE) /\ HN
  \/ setTitle("t1", "work") /\ HN
  \/ \E h \in Handles : onData(h, <<"x", "y">>) /\ HN
  \/ \E sessionId \in {None, "s1"} : resumeClaude("t1", sessionId) /\ HN
  \/ killAll({}) /\ HN
  \/ destroy("t1", TRUE) /\ HN
  \/ \E h \in Handles : onExit(h, 0) /\ HN
  \/ \E session \in SavedSessions, spawnOk \in BOOLEAN :
       CanSpawn(session.id, MaxRestoreSpawn) /\ CanSettle(session)
       /\ restore(session, spawnOk) /\ HN
  \/ \E session \in SavedSessions :
       CanSpawn(session.id, MaxRestoreSpawn) /\ restoreStoreFails(session) /\ HN
  \/ \E pending \in restores : CanPoll /\ restoreResume(pending) /\ HN

SpecRestore == Init /\ [][NextRestore]_vars

(* ---------------- the settle delay of restore against the clock ---------------- *)
\* every restore begins at StartClock; time passes and the assistant's log
\* file may be written while restore waits
NextSettle ==
  \/ CanSpawn("t1", MaxSettleSpawn) /\ create("t1", "/p", "/p", TRUE) /\ HN
  \/ resumeClaude("t1", None) /\ HN
  \/ killAll({}) /\ HN
  \/ \E h \in Handles : onExit(h, 0) /\ HN
  \/ \E session \in SavedSessions :
       clock = StartClock /\ CanSpawn(session.id, MaxSettleSpawn) /\ CanSettle(session)
       /\ restore(session, TRUE) /\ HN
  \/ \E pending \in restores : CanPoll /\ restoreResume(pending) /\ HN
  \/ \E poll \in polls : CanProbe(poll) /\ checkForSession(poll) /\ HN
  \/ CanTick(1) /\ tick(1) /\ HN
  \/ touchFile("/p", "s1", ".jsonl") /\ HN

SpecSettle == Init /\ [][NextSettle]_vars

(* ---------------- the periodic sync ---------------- *)
\* t1 has a project path, t2 has none; commands, output and
\* clearSavedSessions make registry and store diverge between two firings
NextSync ==
  \/ CanSpawn("t1", MaxSyncSpawn) /\ create("t1", None, "/p", TRUE) /\ HN
  \/ CanSpawn("t2", MaxSyncSpawn) /\ create("t2", None, None, TRUE) /\ HN
  \/ setTitle("t1", "work") /\ HN
  \/ resumeClaude("t1", "s1") /\ HN
  \/ \E h \in Handles : onData(h, <<"x", "y">>) /\ HN
  \/ destroy("t1", TRUE) /\ HN
  \/ \E h \in Handles : onExit(h, 0) /\ HN
  \/ clearSavedSessions("/p") /\ HN
  \/ saveTimerFires /\ HN

SpecSync == Init /\ [][NextSync]_vars

(* ---------------- the directory scanner over sets of files ---------------- *)
ScanNames == {"s1", "s2", "s1.jsonl.bak"}
ScanExts == {".jsonl", ".txt"}
Cutoffs == {StartClock - 1, StartClock, StartClock + 1}

NextScan ==
  \/ \E name \in ScanNames, ext \in ScanExts : touchFile("/p", name, ext) /\ HN
  \/ CanTick(1) /\ tick(1) /\ HN
  \/ \E projectPath \in {"/p", "/q"}, afterTimestamp \in Cutoffs :
       scan(projectPath, afterTimestamp) /\ HN

SpecScan == Init /\ [][NextScan]_vars

(* ---------------- several capture chains for one id ---------------- *)
\* one more chain may start
CanChain == Cardinality(polls) < MaxChains

NextChains ==
  \/ CanSpawn("t1", MaxChainSpawn) /\ create("t1", None, "/p", TRUE) /\ HL
  \/ CanChain /\ invokeClaude("t1", None) /\ HL
  \/ \E poll \in polls : CanProbe(poll) /\ checkForSession(poll) /\ HL
  \/ \E h \in Handles : onExit(h, 0) /\ HL
  \/ CanTick(1) /\ tick(1) /\ HL
  \/ \E name \in {"s1", "s2"} : touchFile("/p", name, ".jsonl") /\ HL

SpecChains == Init /\ [][NextChains]_vars

(* ---------------- shutdown: killAll and the exits that follow ---------------- *)
\* no destroy: a killed pty was killed by killAll
NextShutdown ==
  \/ \E projectPath \in {"/p", None} :
       CanSpawn("t1", MaxShutdownSpawn) /\ create("t1", None, projectPath, TRUE) /\ HN
  \/ resumeClaude("t1", "s1") /\ HN
  \/ \E h \in Handles : onData(h, <<"x">>) /\ HN
  \/ killAll({}) /\ HN
  \/ \E h \in Handles : onExit(h, 0) /\ HN
  \/ saveTimerFires /\ HN

SpecShutdown == Init /\ [][NextShutdown]_vars

(* ---------------- the mode flag under every operation ---------------- *)
\* one capture chain and one restore at a time
NextMode ==
  \/ CanSpawn("t1", MaxModeSpawn) /\ create("t1", None, "/p", TRUE) /\ HN
  \/ polls = {} /\ invokeClaude("t1", None) /\ HN
  \/ \E sessionId \in {None, "s1"} : resumeClaude("t1", sessionId) /\ HN
  \/ \E session \in SavedSessions :
       CanSpawn(session.id, MaxModeSpawn) /\ restores = {} /\ restore(session, TRUE) /\ HN
  \/ \E pending \in restores : polls = {} /\ restoreResume(pending) /\ HN
  \/ \E poll \in polls : CanProbe(poll) /\ checkForSession(poll) /\ HN
  \/ \E h \in Handles : onData(h, <<"Session: s1", "Limit reached . resets 6am">>) /\ HN
  \/ write("t1", "ls") /\ HN
  \/ destroy("t1", TRUE) /\ HN
  \/ \E h \in Handles : onExit(h, 0) /\ HN
  \/ saveTimerFires /\ HN
  \/ killAll({}) /\ HN

SpecMode == Init /\ [][NextMode]_vars

(* ---------------- C1 ---------------- *)
LivePtys == {h \in 1..Len(ptys) : ptys[h] = "live"}
Owners(h) == {id \in DOMAIN terminals : terminals[id] = h}

\* C1: in every reachable state each live pty process is owned by exactly one
\* registry record and each registry record owns a live pty process of its
\* own, also when an id is destroyed and created again before the old pty's
\* exit event is delivered.
OnePtyPerRecord ==
  /\ \A h \in LivePtys : Cardinality(Owners(h)) = 1
  /\ \A id \in DOMAIN terminals : terminals[id] \in LivePtys
  /\ \A id1, id2 \in DOMAIN terminals : terminals[id1] = terminals[id2] => id1 = id2

(* ---------------- C2 ---------------- *)
\* C2: after each chunk a terminal's outputBuffer is at most the cap long and
\* equals the trailing slice (of at most the cap) of the concatenation of all
\* chunks the terminal has received.
BufferIsTrailingSlice ==
  \A h \in DOMAIN procs :
    LET all == received[h]
        buf == procs[h].outputBuffer
        n == Len(all)
        m == Len(buf)
    IN /\ m <= OutputBufferCap
       /\ m = (IF n <= OutputBufferCap THEN n ELSE OutputBufferCap)
       /\ \A i \in 1..m : buf[i] = all[n - m + i]

\* a chunk arrived on a buffer that was not empty and pushed old output out
BufferTruncated ==
  /\ last.op = "data"
  /\ Len(received[last.h]) > OutputBufferCap
  /\ Len(ChunkOf(last)) < Len(received[last.h])
  /\ Len(ChunkOf(last)) < OutputBufferCap

(* ---------------- C3 ---------------- *)
LiveUnder(id) == {h \in LivePtys : procs[h].id = id}

\* C3: create for an id that already has a live process returns success,
\* spawns no second pty and leaves the existing record and its persisted
\* record unchanged, so that the id has exactly one live process afterwards.
DuplicateCreateSpawnsNothing ==
  [][(last'.op = "create" /\ LiveUnder(last'.id) # {})
       => /\ last'.ok
          /\ last'.spawned = 0
          /\ procs' = procs
          /\ store' = store
          /\ Cardinality({h \in 1..Len(ptys') : ptys'[h] = "live" /\ procs'[h].id = last'.id}) = 1]_vars

(* ---------------- C4 ---------------- *)
\* C4: counting destroy itself and the pty exit event its termination
\* triggers, the store's removal for a terminal is performed once, and after
\* a destroy of a registered id neither its record nor its persisted record
\* exists.
RemovedExactlyOnce ==
  /\ \A h \in 1..Len(removals) : removals[h] <= 1
  /\ last.op = "destroy" /\ last.h # 0
       => ~has(last.id) /\ ~hasSession(store, procs[last.h].projectPath, last.id)

(* ---------------- C5 ---------------- *)
\* C5: for every id present in the registry destroy reports success and
\* removes the in-memory record, even when terminating the pty raises an error.
DestroyOfKnownIdSucceeds ==
  [][(last'.op = "destroy" /\ has(last'.id)) => (last'.ok /\ ~(last'.id \in DOMAIN terminals'))]_vars

(* ---------------- C6 ---------------- *)
NotesOf(sent, chs, h) == {i \in 1..Len(sent) : sent[i].ch \in chs /\ sent[i].h = h}
CallsOf(calls, fns, h) == {i \in 1..Len(calls) : calls[i].fn \in fns /\ calls[i].h = h}

\* C6: a command naming an id that is not in the registry changes nothing:
\* destroy answers 'Terminal not found', write, resize, invokeClaude,
\* resumeClaude and setTitle return without effect; the registry, the store,
\* the cool-down map, the polling chains and every other variable stay as
\* they were, no pty is written, no notification is sent, and isClaudeMode
\* and getClaudeSessionId answer false and absent for the id.
UnknownIdIsNoOp ==
  [][(last'.op \in CommandOps /\ ~has(last'.id)) =>
       /\ UNCHANGED pvars
       /\ last'.h = 0
       /\ last'.sent = <<>> /\ last'.calls = <<>> /\ last'.writes = <<>>
       /\ last'.scheduled = 0 /\ last'.spawned = 0
       /\ (last'.op = "destroy" => ~last'.ok /\ last'.arg = "Terminal not found")
       /\ ~isClaudeMode(last'.id)
       /\ getClaudeSessionId(last'.id) = None]_vars

\* a command on the never-created t2 while t1 is registered, persisted,
\* polled for and rate limited
CommandOnUnknownId ==
  /\ last.op \in CommandOps /\ last.id = "t2" /\ last.h = 0
  /\ has("t1") /\ store # EmptyMap /\ polls # {} /\ rateLimitNotifiedAt # EmptyMap

OnlyResumeReplaces ==
  [][\A h \in DOMAIN procs \cap DOMAIN procs' :
       (procs[h].claudeSessionId # None
        /\ procs'[h].claudeSessionId # procs[h].claudeSessionId) =>
         \/ /\ last'.op = "resumeClaude" /\ last'.h = h /\ last'.arg # None
            /\ procs'[h].claudeSessionId = last'.arg
         \/ /\ last'.op = "invokeClaude" /\ last'.h = h
            /\ procs'[h].claudeSessionId = None]_vars

\* C8: a populated claudeSessionId is changed by no output chunk and no
\* probe; it changes only by resumeClaude with an id (to that id), by the
\* resume step of restore (to the restored session's id, present or
\* absent), or by invokeClaude (to absent).
OnlyResumeOrRestoreReplaces ==
  [][\A h \in DOMAIN procs \cap DOMAIN procs' :
       (procs[h].claudeSessionId # None
        /\ procs'[h].claudeSessionId # procs[h].claudeSessionId) =>
         \/ /\ last'.op = "resumeClaude" /\ last'.h = h /\ last'.arg # None
            /\ procs'[h].claudeSessionId = last'.arg
         \/ /\ last'.op = "restoreResume" /\ last'.h = h
            /\ procs'[h].claudeSessionId = last'.arg
         \/ /\ last'.op = "invokeClaude" /\ last'.h = h
            /\ procs'[h].claudeSessionId = None]_vars

\* an announcing chunk reached a terminal whose id came from resumeClaude,
\* while the project's log directory held a session file
PopulatedIdSurvivesChunk ==
  /\ last.op = "data" /\ last.h \in DOMAIN procs
  /\ extractClaudeSessionId(ChunkOf(last)) = "s1"
  /\ procs[last.h].claudeSessionId = "s2"
  /\ "/p" \in DOMAIN files

(* ---------------- C9 ---------------- *)
Announced(step) == extractClaudeSessionId(ChunkOf(step))

RateNotes(step) == NotesOf(step.sent, {"rateLimit"}, step.h)

KillsOf(writes) == {writes[i].h : i \in {j \in 1..Len(writes) : writes[j].cmd = "kill"}}

\* C13: killAll calls saveSession for every terminal with a live pty and a
\* project path, calls kill() on every live pty, returns, and leaves the
\* registry empty.
KillAllReachesEveryPty ==
  [][last'.op = "killAll" =>
       /\ \A h \in LivePtys :
            /\ h \in KillsOf(last'.writes)
            /\ procs[h].projectPath # None =>
                 CallsOf(last'.calls, {"saveSession"}, h) # {}
       /\ last'.ok
       /\ terminals' = EmptyMap]_vars

(* ---------------- C14 ---------------- *)
\* C14: killAll leaves the save timer cancelled and the cool-down map
\* without an entry, and a cancelled timer never fires.
KillAllTearsDown ==
  [][/\ last'.op = "killAll" => ~saveTimer' /\ rateLimitNotifiedAt' = EmptyMap
     /\ ~saveTimer => ~saveTimer' /\ last'.op # "saveTimer"]_vars

(* ---------------- C15 ---------------- *)
\* every store call of a step is made for a TerminalProcess that has a
\* project path, under that path, and the store changes only by such calls
StoreCallsCarryProjectPath ==
  /\ \A i \in 1..Len(last'.calls) :
       LET c == last'.calls[i]
       IN c.h # 0 => /\ c.h \in DOMAIN procs \cup DOMAIN procs'
                     /\ LET t == IF c.h \in DOMAIN procs THEN procs[c.h] ELSE procs'[c.h]
                        IN t.projectPath # None /\ c.projectPath = t.projectPath
  /\ store' # store => last'.calls # <<>>

\* C15 as stated: every successful create with a project path leaves a
\* persisted record for (projectPath, id) with isClaudeMode false and an
\* empty outputBuffer, and no operation makes a store call for a terminal
\* without a project path.
CreatePersistsInitialRecord ==
  [][/\ (last'.op = "create" /\ last'.ok /\ last'.arg # None) =>
          /\ hasSession(store', last'.arg, last'.id)
          /\ ~getSession(store', last'.arg, last'.id).isClaudeMode
          /\ getSession(store', last'.arg, last'.id).outputBuffer = <<>>
     /\ StoreCallsCarryProjectPath]_vars

\* C15: a successful create that spawns a terminal with a project path
\* leaves a persisted record for (projectPath, id) with isClaudeMode false
\* and an empty outputBuffer; a create for an id already registered returns
\* success without touching the store; and no operation makes a store call
\* for a terminal without a project path.
SpawningCreatePersistsInitialRecord ==
  [][/\ (last'.op = "create" /\ last'.ok /\ last'.spawned # 0 /\ last'.arg # None) =>
          /\ hasSession(store', last'.arg, last'.id)
          /\ ~getSession(store', last'.arg, last'.id).isClaudeMode
          /\ getSession(store', last'.arg, last'.id).outputBuffer = <<>>
     /\ (last'.op = "create" /\ last'.ok /\ last'.spawned = 0) =>
          store' = store /\ last'.calls = <<>>
     /\ StoreCallsCarryProjectPath]_vars

\* a terminal without a project path went through invokeClaude, an adopting
\* probe and the save timer, and the store is still empty
NoPathTerminalNeverPersisted ==
  /\ last.op = "saveTimer" /\ last.calls = <<>>
  /\ has("t1") /\ procs[terminals["t1"]].projectPath = None
  /\ procs[terminals["t1"]].claudeSessionId = "s1"
  /\ "/p" \in DOMAIN files
  /\ store = EmptyMap


(* ---------------- C16 ---------------- *)
\* C16: create returns failure only when pty.spawn fails, a failed create
\* leaves the registry, the ptys, the terminal objects and the store as they
\* were (no record, no live pty, no persisted record, no wired handlers), and
\* a create whose spawn succeeded returns success.
CreateFailsOnlyOnSpawnFailure ==
  [][last'.op = "create" =>
       /\ ~last'.ok => /\ last'.spawned = 0
                       /\ UNCHANGED <<terminals, procs, ptys, store>>
       /\ last'.spawned # 0 => last'.ok]_vars

(* ---------------- C17 ---------------- *)
\* C17: a store call that throws does not abort the operation it belongs to:
\* create registers the terminal and returns success, destroy kills the pty
\* and removes the record, the exit handler removes the record, the output
\* handler adopts the id and forwards the chunk, killAll kills every
\* registered pty and clears the registry.
StoreFailureNeverAborts ==
  [][last'.threw # <<>> =>
       /\ last'.op = "create" => last'.ok /\ last'.id \in DOMAIN terminals'
       /\ last'.op = "destroy" => /\ last'.id \notin DOMAIN terminals'
                                  /\ ptys'[last'.h] # "live"
       /\ last'.op = "exit" => \A id \in DOMAIN terminals' : terminals'[id] # last'.h
       /\ last'.op = "data" => /\ procs'[last'.h].claudeSessionId # None
                               /\ OutputsOf(last', last'.id) = <<last'.input>>
       /\ last'.op = "killAll" => /\ terminals' = EmptyMap
                                  /\ \A h \in Registered : ptys'[h] # "live"]_vars

(* ---------------- C18 ---------------- *)
\* what invokeClaude does in memory, to the pty and to the UI, and the chain it starts
InvokeEffects(h) ==
  /\ procs'[h].isClaudeMode
  /\ procs'[h].claudeSessionId = None
  /\ Len(last'.writes) = 1
  /\ last'.writes[1].h = h /\ last'.writes[1].cmd = "claude"
  /\ Len(last'.sent) = 1
  /\ last'.sent[1].ch = "titleChange" /\ last'.sent[1].h = h
  /\ last'.scheduled = 1
  /\ Cardinality(polls' \ polls) = 1
  /\ \A poll \in polls' \ polls :
       poll.terminalId = last'.id /\ poll.startTime = clock /\ poll.attempts = 0
\* the persisted record of terminal h exists and carries isClaudeMode = true
PersistedInClaudeMode(h) ==
  procs'[h].projectPath # None =>
    /\ hasSession(store', procs'[h].projectPath, procs'[h].id)
    /\ getSession(store', procs'[h].projectPath, procs'[h].id).isClaudeMode

\* C18: invokeClaude on a registered terminal with a live pty, after any
\* prior operations (clearSavedSessions included), sets isClaudeMode, clears
\* claudeSessionId, writes one launch command, sends one title-change
\* notification, leaves the persisted record of a terminal with a project path
\* with isClaudeMode = true, and starts one capture chain keyed to the time of
\* the invocation.
InvokePersistsMode ==
  [][last'.op = "invokeClaude" /\ last'.h # 0 /\ ptys[last'.h] = "live" =>
       InvokeEffects(last'.h) /\ PersistedInClaudeMode(last'.h)]_vars

ProbesBounded == \A poll \in polls : poll.attempts < maxAttempts
\* what a probe step does to the chain it belongs to
ProbeStep ==
  last'.op = "probe" =>
    \E poll \in polls :
      /\ polls' = (polls \ {poll})
                  \cup (IF last'.scheduled = 1 THEN {[poll EXCEPT !.attempts = @ + 1]} ELSE {})
      /\ last'.scheduled \in {0, 1}
      /\ last'.scheduled = 1 =>
           /\ poll.attempts + 1 < maxAttempts
           /\ last'.scanned
           /\ findClaudeSessionAfter(poll.projectPath, poll.startTime) = None
      /\ last'.arg = "abandon" =>
           /\ poll.attempts + 1 = maxAttempts
           /\ last'.scheduled = 0
           /\ last'.sent = <<>> /\ last'.calls = <<>>
           /\ UNCHANGED <<store, procs>>
           /\ procs'[last'.h].claudeSessionId = None

\* C20: every capture chain terminates: it makes at most maxAttempts (10)
\* probes, a probe reschedules the chain only when the scan found no
\* qualifying file and fewer than 10 probes have run, the 10th probe that
\* finds nothing ends the chain with no notification and no store call,
\* claudeSessionId still absent, and every chain is eventually gone.
PollingTerminates ==
  /\ []ProbesBounded
  /\ [][ProbeStep]_vars
  /\ <>[](polls = {})

\* a chain has made its 10th probe and found nothing
ChainAbandoned ==
  /\ last.op = "probe" /\ last.arg = "abandon"
  /\ polls = {}
  /\ procs[last.h].claudeSessionId = None

(* ---------------- C21 ---------------- *)
\* the probe finds id unregistered, out of assistant mode, or with an id known
ChainObsolete(id) ==
  \/ id \notin DOMAIN terminals
  \/ ~procs[terminals[id]].isClaudeMode
  \/ procs[terminals[id]].claudeSessionId # None

\* C21: a probe that finds its terminal id unregistered, out of assistant
\* mode, or with a session id already known ends the chain silently: no
\* directory scan, nothing adopted, no store call, no notification, no
\* further probe; under every interleaving of probes with destroy, pty exit,
\* killAll and output.
ObsoleteProbeStopsSilently ==
  [][last'.op = "probe" /\ ChainObsolete(last'.id) =>
       /\ ~last'.scanned
       /\ last'.sent = <<>> /\ last'.calls = <<>> /\ last'.scheduled = 0
       /\ UNCHANGED <<terminals, procs, ptys, store, rateLimitNotifiedAt>>
       /\ polls' \subseteq polls /\ Cardinality(polls \ polls') = 1]_vars

\* a chain stopped at a terminal created anew under the id, out of assistant
\* mode, while a qualifying log file was there to adopt
ProbeStoppedAtRecreatedId ==
  /\ last.op = "probe" /\ last.arg = "stop"
  /\ has("t1") /\ terminals["t1"] = 2
  /\ ~procs[2].isClaudeMode
  /\ findClaudeSessionAfter("/p", StartClock) # None

(* ---------------- C22 ---------------- *)
\* the pty writes of a step carry only commands, never a saved output buffer
WritesOnlyResume(step) ==
  /\ Len(step.writes) <= 1
  /\ \A i \in 1..Len(step.writes) :
       step.writes[i].cmd \in {"claude --resume", "claude --resume (picker)"}

\* C22: restore creates the terminal from the session's id, cwd and
\* projectPath; when the create fails restore returns the failure and changes
\* no state, writes to no pty and sends no notification; when it succeeds the
\* terminal carries the session's title and restore returns the session's
\* outputBuffer as saved; the only pty write of restore is the one resume
\* command of a session in assistant mode.
RestoreFailsCleanly ==
  [][/\ last'.op = "restore" /\ ~last'.ok =>
          /\ UNCHANGED <<terminals, procs, ptys, store, polls, restores>>
          /\ last'.writes = <<>> /\ last'.sent = <<>>
     /\ last'.op = "restore" /\ last'.ok =>
          \E session \in SavedSessions :
            /\ session.id = last'.id
            /\ terminals'[session.id] = last'.h
            /\ last'.spawned # 0 =>
                 /\ procs'[last'.h].cwd = session.cwd
                 /\ procs'[last'.h].projectPath = session.projectPath
            /\ procs'[last'.h].title = session.title
            /\ last'.writes = <<>>
            /\ last'.arg = "returned" => last'.outputBuffer = session.outputBuffer
     /\ last'.op = "restoreResume" =>
          /\ WritesOnlyResume(last')
          /\ \E pending \in restores \ restores' :
               last'.outputBuffer = pending.session.outputBuffer]_vars

(* ---------------- C23 ---------------- *)
\* the end of the restore of a session that was in assistant mode
ResumedAsSaved ==
  last'.op = "restoreResume" =>
    LET id == last'.id
        sessionId == last'.arg
    IN /\ id \in DOMAIN terminals'
       /\ procs'[terminals'[id]].isClaudeMode
       /\ procs'[terminals'[id]].claudeSessionId = sessionId
       /\ Len(last'.writes) = 1
       /\ last'.writes[1].h = terminals'[id]
       /\ last'.writes[1].cmd = IF sessionId # None THEN "claude --resume"
                                ELSE "claude --resume (picker)"
       /\ Len(last'.sent) = 1
       /\ last'.sent[1].ch = "titleChange" /\ last'.sent[1].id = id
       /\ (last'.scheduled = 1) <=> (sessionId = None)
       /\ (polls' # polls) <=> (sessionId = None)
\* the restore of a session that was not in assistant mode
RestoredPlain ==
  last'.op = "restore" /\ last'.ok /\ last'.arg = "returned" =>
    /\ ~procs'[last'.h].isClaudeMode
    /\ last'.writes = <<>> /\ last'.sent = <<>>
    /\ last'.scheduled = 0 /\ polls' = polls /\ restores' = restores

\* C23: the restore of a session that was in assistant mode ends, after the
\* settle delay, with the terminal registered under the id in assistant mode,
\* its claudeSessionId equal to the session's (absent if it had none), one
\* resume command written (with the id when known, the picker otherwise), one
\* title-change notification, and a capture chain started exactly when no id
\* is known; the restore of a session not in assistant mode leaves the
\* terminal out of assistant mode, writes nothing, sends no title change and
\* starts no chain.
RestoreResumesAsSaved == [][ResumedAsSaved /\ RestoredPlain]_vars

(* ---------------- C24 ---------------- *)
\* C24: the chain restore starts for a session in assistant mode without an
\* id has as its cutoff the time at which the settle delay began (StartClock
\* for every restore here), so a log file modified during the delay is newer
\* than the cutoff.
CutoffPrecedesSettle ==
  [][last'.op = "restoreResume" =>
       \A poll \in polls' \ polls :
         /\ poll.startTime = StartClock
         /\ \A f \in (IF poll.projectPath \in DOMAIN files THEN files[poll.projectPath] ELSE {}) :
              f.ext = ".jsonl" /\ f.mtime > StartClock =>
                findClaudeSessionAfter(poll.projectPath, poll.startTime) # None]_vars

(* ---------------- C25 ---------------- *)
\* the record of registered terminal h in st carries h's in-memory values
MirrorsTerminal(st, h) ==
  /\ hasSession(st, procs[h].projectPath, procs[h].id)
  /\ LET session == getSession(st, procs[h].projectPath, procs[h].id)
     IN /\ session.id = procs[h].id
        /\ session.title = procs[h].title
        /\ session.cwd = procs[h].cwd
        /\ session.projectPath = procs[h].projectPath
        /\ session.isClaudeMode = procs[h].isClaudeMode
        /\ session.claudeSessionId = procs[h].claudeSessionId
        /\ session.outputBuffer = procs[h].outputBuffer

\* C25: at every firing of the persistence timer each registered terminal
\* with a project path gets a record written that equals its in-memory title,
\* cwd, projectPath, mode flag, session id and output buffer; no record is
\* written for a terminal without a project path or for an id that is not
\* registered; so registry and store agree after the firing.
TimerMirrorsRegistry ==
  [][last'.op = "saveTimer" =>
       /\ \A h \in Registered :
            procs[h].projectPath # None =>
              /\ MirrorsTerminal(store', h)
              /\ CallsOf(last'.calls, {"saveSession"}, h) # {}
       /\ \A i \in 1..Len(last'.calls) :
            /\ last'.calls[i].fn = "saveSession"
            /\ last'.calls[i].projectPath # None
            /\ has(last'.calls[i].id) /\ terminals[last'.calls[i].id] = last'.calls[i].h
       /\ \A k \in DOMAIN store' :
            \/ k \in DOMAIN store /\ store'[k] = store[k]
            \/ \E h \in Registered : k = StoreKey(procs[h].projectPath, procs[h].id)
       /\ DOMAIN store \subseteq DOMAIN store'
       /\ UNCHANGED <<terminals, procs, ptys>>]_vars

\* a firing has written back the record of t1 that clearSavedSessions had
\* dropped, with title, mode, id and buffer set since create, and nothing for t2
SyncRepairedDivergence ==
  /\ last.op = "saveTimer"
  /\ has("t1") /\ has("t2")
  /\ procs[terminals["t1"]].title = "work"
  /\ procs[terminals["t1"]].claudeSessionId = "s1"
  /\ procs[terminals["t1"]].outputBuffer = <<"x", "y">>
  /\ MirrorsTerminal(store, terminals["t1"])
  /\ DOMAIN store = {StoreKey("/p", "t1")}

(* ---------------- C26 ---------------- *)
\* C26: for every set of files with modification times and every cutoff T,
\* findClaudeSessionAfter returns the name, without the log extension, of a
\* log file of greatest modification time among those modified strictly after
\* T; it returns nothing when the directory does not exist or no log file is
\* newer than T; a file without the log extension is never returned.
ScanReturnsNewestLog ==
  [][last'.op = "scan" =>
       LET projectPath == last'.input[1]
           afterTimestamp == last'.input[2]
           dir == IF projectPath \in DOMAIN files THEN files[projectPath] ELSE {}
           newer == {f \in dir : f.ext = ".jsonl" /\ f.mtime > afterTimestamp}
       IN IF newer = {} THEN last'.arg = None
          ELSE \E f \in newer : /\ \A g \in newer : g.mtime <= f.mtime
                                /\ last'.arg = f.name]_vars

(* ---------------- C27 ---------------- *)
\* the log files whose name gives sessionId
LogFilesOf(sessionId) ==
  {f \in UNION {files[dir] : dir \in DOMAIN files} :
     f.ext = ".jsonl" /\ removeFirstLogExtension(f.name, f.ext) = sessionId}

\* C27: an id a directory-scan probe adopts comes from a log file modified
\* strictly after the latest invokeClaude (or restore) of the terminal that
\* is registered under the chain's id when the probe runs, also when several
\* chains are pending for the id.
AdoptsOnlyFromOwnLaunch ==
  [][last'.op = "probe" /\ last'.arg = "found" =>
       /\ last'.h \in DOMAIN launchedAt
       /\ \E f \in LogFilesOf(procs'[last'.h].claudeSessionId) :
            f.mtime > launchedAt[last'.h]]_vars

(* ---------------- C28 ---------------- *)
\* C28: the record killAll persists for a registered terminal with a project
\* path is in the store when killAll returns and is still there after the
\* exit event of the pty killAll killed has been delivered.
KillAllRecordsSurviveExit ==
  [][/\ last'.op = "killAll" =>
          \A h \in Registered :
            procs[h].projectPath # None => hasSession(store', procs[h].projectPath, procs[h].id)
     /\ last'.op = "exit" /\ ptys[last'.h] = "killed" /\ procs[last'.h].projectPath # None =>
          hasSession(store', procs[last'.h].projectPath, last'.id)]_vars

(* ---------------- C29 ---------------- *)
\* C29: when the terminal being restored was destroyed, or its pty exited,
\* during the settle delay, the rest of restore writes no command to that
\* pty, sends no title-change notification, changes no field of a registered
\* terminal, starts no capture chain and does not return success while the id
\* is unregistered.
TornDownRestoreStops ==
  [][last'.op = "restoreResume" /\ (last'.h \notin Registered \/ ptys[last'.h] # "live") =>
       /\ last'.writes = <<>>
       /\ last'.sent = <<>>
       /\ \A h \in Registered : procs'[h] = procs[h]
       /\ polls' = polls
       /\ last'.ok => has(last'.id)]_vars

====
